---------------------------- MODULE Spec2Model ----------------------------
(***************************************************************************)
(* Model of relaxation.cpp: the simulation of a relaxation oscillator made *)
(* of a Schmitt-trigger Inverter, a Resistor and a Capacitor, the          *)
(* StateMonitor that derives the period, and main()'s fixed-step loop.     *)
(*                                                                         *)
(* Numbers.  The program computes in IEEE doubles; the model computes in   *)
(* integers, every physical quantity in a unit of its own, chosen so that  *)
(* each formula of the source is one integer operation:                    *)
(*    voltage      microvolt        resistance  ohm                        *)
(*    current      microampere      capacitance nanofarad                  *)
(*    charge       femtocoulomb     time        nanosecond                 *)
(* (uV / ohm = uA, uA * ns = fC, fC / nF = uV, ohm * nF = ns).  A floating *)
(* division is FDiv, rounding to nearest as IEEE does.  NaN is the one      *)
(* double that is no number: arithmetic on it gives NaN and every          *)
(* comparison with it is false.                                            *)
(*                                                                         *)
(* std::optional<floating> is a sequence: << >> is nullopt, <<x>> holds x. *)
(***************************************************************************)
EXTENDS Integers, Sequences, FiniteSets

(***************************************************************************)
(* main()'s default parameter values, lines 248-253.                       *)
(***************************************************************************)
DefaultResistance == 1000
DefaultCapacitance == 100
DefaultLogicLowVoltage == 0
DefaultLogicHighVoltage == 5000000
DefaultLogicLowTransitionVoltage == 600000
DefaultLogicHighTransitionVoltage == 2500000

\* timestepSize = 1e-4 * timeConstant (line 328): one step is 1/10000 of it.
TimestepsPerTimeConstant == 10000
\* numberOfTimesteps = 10 * timeConstant / timestepSize (line 329).
TimeConstantsPerRun == 10

VARIABLES
  pc,                          \* where main() is
  resistance, capacitance,     \* main()'s parameters after the argv parse
  logicLowVoltage, logicHighVoltage,
  logicLowTransitionVoltage, logicHighTransitionVoltage,
  inverter,                    \* the Inverter object
  capacitor,                   \* the Capacitor object
  resistor,                    \* the Resistor object
  stateMonitor,                \* the StateMonitor object
  timestepSize, numberOfTimesteps,
  lastInverterOutput,          \* std::optional<floating>
  step,                        \* the loop counter
  descriptionFile, out,        \* the two std::ofstream
  frequency,                   \* what "Frequency is" reports, << >> before
  sampleCount, lastSample,     \* the records written to output.csv
  edgeCount, lastEdge,         \* the stateChange calls main() made
  call,                        \* the latest member call and what it returned
  calls,                       \* the calls made on a monitor or capacitor
  twin                         \* a second run of main() on the same argv

vars == <<pc, resistance, capacitance, logicLowVoltage, logicHighVoltage,
          logicLowTransitionVoltage, logicHighTransitionVoltage, inverter,
          capacitor, resistor, stateMonitor, timestepSize, numberOfTimesteps,
          lastInverterOutput, step, descriptionFile, out, frequency,
          sampleCount, lastSample, edgeCount, lastEdge, call, calls, twin>>

----------------------------------------------------------------------------
(***************************************************************************)
(* Floating point and std::optional                                        *)
(***************************************************************************)

\* A NaN, encoded as an integer below every quantity of the model.
NaN == 0 - 2147483647

FAdd(a, b) == IF a = NaN \/ b = NaN THEN NaN ELSE a + b
FSub(a, b) == IF a = NaN \/ b = NaN THEN NaN ELSE a - b
FMul(a, b) == IF a = NaN \/ b = NaN THEN NaN ELSE a * b
FLessEq(a, b) == a # NaN /\ b # NaN /\ a <= b
FGreaterEq(a, b) == a # NaN /\ b # NaN /\ a >= b

\* a / b in floating point, b > 0: the quotient rounded to the nearest unit.
FDiv(a, b) ==
  IF a = NaN \/ b = NaN THEN NaN ELSE (2 * a + b) \div (2 * b)

nullopt == << >>
has_value(o) == o # << >>
value(o) == o[1]


----------------------------------------------------------------------------
(***************************************************************************)
(* class Capacitor, lines 39-68                                            *)
(***************************************************************************)

\* The constructor initialises capacitance only: totalCharge is left
\* uninitialised, so it starts as whatever value the storage held.
Capacitor(capacitance_, indeterminate) ==
  [capacitance |-> capacitance_, totalCharge |-> indeterminate]

addCharge(c, charge) == [c EXCEPT !.totalCharge = FAdd(@, charge)]

voltage(c) == FDiv(c.totalCharge, c.capacitance)

(***************************************************************************)
(* class Resistor, lines 73-94                                             *)
(***************************************************************************)
Resistor(resistance_) == [resistance |-> resistance_]

current(r, v1, v2) == FDiv(FSub(v1, v2), r.resistance)

(***************************************************************************)
(* class Inverter, lines 104-166                                           *)
(***************************************************************************)
\* setInputVoltage with the comparisons made strict.
setInputVoltage_strict(inv, volts) ==
  IF ~inv.hi
  THEN IF volts # NaN /\ volts < inv.hiLowTransition
       THEN [inv EXCEPT !.hi = TRUE]
       ELSE inv
  ELSE IF volts # NaN /\ volts > inv.lowHiTransition
       THEN [inv EXCEPT !.hi = FALSE]
       ELSE inv

\* setInputVoltage with the two thresholds exchanged.
setInputVoltage_swapped(inv, volts) ==
  IF ~inv.hi
  THEN IF FLessEq(volts, inv.lowHiTransition)
       THEN [inv EXCEPT !.hi = TRUE]
       ELSE inv
  ELSE IF FGreaterEq(volts, inv.hiLowTransition)
       THEN [inv EXCEPT !.hi = FALSE]
       ELSE inv

setInputVoltage(inv, volts) ==
  IF ~inv.hi
  THEN IF FLessEq(volts, inv.hiLowTransition)
       THEN [inv EXCEPT !.hi = TRUE]
       ELSE inv
  ELSE IF FGreaterEq(volts, inv.lowHiTransition)
       THEN [inv EXCEPT !.hi = FALSE]
       ELSE inv

\* The constructor initialises the four voltages and then calls
\* setInputVoltage, which reads hi before anything has written it.
Inverter(outputLow_, outputHi_, hiLow_, lowHi_, volts, indeterminate) ==
  setInputVoltage([outputHi |-> outputHi_,
                   outputLow |-> outputLow_,
                   hiLowTransition |-> hiLow_,
                   lowHiTransition |-> lowHi_,
                   hi |-> indeterminate], volts)

getOutputVoltage(inv) == IF inv.hi THEN inv.outputHi ELSE inv.outputLow

(***************************************************************************)
(* class StateMonitor, lines 173-218                                       *)
(***************************************************************************)
StateMonitor ==
  [highInterval |-> nullopt, lowInterval |-> nullopt, previousTime |-> nullopt]

\* stateChange keeping the latest interval of each level, not the first.
stateChange_latest(m, stateHigh, time) ==
  LET interval == time - value(m.previousTime)
      recorded ==
        IF has_value(m.previousTime)
        THEN IF stateHigh
             THEN [m EXCEPT !.lowInterval = <<interval>>]
             ELSE [m EXCEPT !.highInterval = <<interval>>]
        ELSE m
  IN [recorded EXCEPT !.previousTime = <<time>>]

\* stateChange taking a missing previousTime as time 0.
stateChange_fromZero(m, stateHigh, time) ==
  LET interval == IF has_value(m.previousTime)
                  THEN time - value(m.previousTime)
                  ELSE time
  IN [previousTime |-> <<time>>,
      lowInterval |-> IF stateHigh /\ ~has_value(m.lowInterval)
                      THEN <<interval>> ELSE m.lowInterval,
      highInterval |-> IF ~stateHigh /\ ~has_value(m.highInterval)
                       THEN <<interval>> ELSE m.highInterval]

\* stateChange filing the interval under the level just entered.
stateChange_swapped(m, stateHigh, time) ==
  LET interval == time - value(m.previousTime)
      recorded ==
        IF has_value(m.previousTime)
        THEN IF ~stateHigh
             THEN IF ~has_value(m.lowInterval)
                  THEN [m EXCEPT !.lowInterval = <<interval>>]
                  ELSE m
             ELSE IF ~has_value(m.highInterval)
                  THEN [m EXCEPT !.highInterval = <<interval>>]
                  ELSE m
        ELSE m
  IN [recorded EXCEPT !.previousTime = <<time>>]

\* stateChange leaving previousTime alone once both intervals are recorded.
stateChange_frozen(m, stateHigh, time) ==
  LET interval == time - value(m.previousTime)
      recorded ==
        IF has_value(m.previousTime)
        THEN IF stateHigh
             THEN IF ~has_value(m.lowInterval)
                  THEN [m EXCEPT !.lowInterval = <<interval>>]
                  ELSE m
             ELSE IF ~has_value(m.highInterval)
                  THEN [m EXCEPT !.highInterval = <<interval>>]
                  ELSE m
        ELSE m
  IN IF has_value(m.lowInterval) /\ has_value(m.highInterval)
     THEN m
     ELSE [recorded EXCEPT !.previousTime = <<time>>]

stateChange(m, stateHigh, time) ==
  LET interval == time - value(m.previousTime)
      recorded ==
        IF has_value(m.previousTime)
        THEN IF stateHigh
             THEN IF ~has_value(m.lowInterval)
                  THEN [m EXCEPT !.lowInterval = <<interval>>]
                  ELSE m
             ELSE IF ~has_value(m.highInterval)
                  THEN [m EXCEPT !.highInterval = <<interval>>]
                  ELSE m
        ELSE m
  IN [recorded EXCEPT !.previousTime = <<time>>]

\* Lines 187-198, 207: the line stateChange writes to std::cout: the level,
\* the time and, when previousTime is set, the interval since it.
stateChangeNotice(m, stateHigh, time) ==
  [high |-> stateHigh, at |-> time,
   interval |-> IF has_value(m.previousTime)
                THEN <<time - value(m.previousTime)>>
                ELSE nullopt]

\* std::optional::value() throws std::bad_optional_access on a nullopt; the
\* left operand of + is evaluated and throws first or second, either way the
\* call ends in the exception.
\* getPeriod reading an unset interval as 0 (value_or(0)).
getPeriod_value_or(m) ==
  [threw |-> "",
   result |-> <<(IF has_value(m.highInterval) THEN value(m.highInterval) ELSE 0)
                + (IF has_value(m.lowInterval) THEN value(m.lowInterval) ELSE 0)>>]

getPeriod(m) ==
  IF has_value(m.highInterval) /\ has_value(m.lowInterval)
  THEN [threw |-> "", result |-> <<value(m.highInterval) + value(m.lowInterval)>>]
  ELSE [threw |-> "std::bad_optional_access", result |-> << >>]

----------------------------------------------------------------------------
(***************************************************************************)
(* main(), lines 240-374                                                   *)
(***************************************************************************)

\* The parameter sets the runs are checked for: what the six convert(argv[i])
\* calls and the defaults of lines 248-291 can leave in main()'s variables.
\* Resistance and capacitance are positive.
Argv ==
  { [resistance |-> DefaultResistance, capacitance |-> DefaultCapacitance,
     logicLowVoltage |-> DefaultLogicLowVoltage,
     logicHighVoltage |-> DefaultLogicHighVoltage,
     logicLowTransitionVoltage |-> DefaultLogicLowTransitionVoltage,
     logicHighTransitionVoltage |-> DefaultLogicHighTransitionVoltage],
    \* relaxation 2300 1e-7 5 5: equal logic levels
    [resistance |-> 2300, capacitance |-> DefaultCapacitance,
     logicLowVoltage |-> DefaultLogicHighVoltage,
     logicHighVoltage |-> DefaultLogicHighVoltage,
     logicLowTransitionVoltage |-> DefaultLogicLowTransitionVoltage,
     logicHighTransitionVoltage |-> DefaultLogicHighTransitionVoltage],
    \* relaxation 1000 1e-7 0 5 -0.6 2.5: a threshold below both levels
    [resistance |-> DefaultResistance, capacitance |-> DefaultCapacitance,
     logicLowVoltage |-> DefaultLogicLowVoltage,
     logicHighVoltage |-> DefaultLogicHighVoltage,
     logicLowTransitionVoltage |-> -DefaultLogicLowTransitionVoltage,
     logicHighTransitionVoltage |-> DefaultLogicHighTransitionVoltage] }

\* What an uninitialised floating can hold when the Capacitor is built:
\* zero, a charge of 3 V on 100 nF, a NaN (all bits set, for one).
IndeterminateCharge == {0, 300000000, NaN}

NotConstructed == << >>

\* 10 * timeConstant / timestepSize in IEEE doubles.  The exact quotient is
\* 100000; the double the program gets is 100000 or a neighbour of it,
\* depending on the operands.  For the parameter sets of Argv it is 100000
\* for 1000 ohm and 1e-7 F, and 100000.00000000001 for 2300 ohm and 1e-7 F.
\* A double is modelled as <<n, e>>: n plus e units in the last place.
QuotientRounding(resistance_, capacitance_) ==
  IF resistance_ = 2300 /\ capacitance_ = 100 THEN 1 ELSE 0

NumberOfTimesteps(resistance_, capacitance_, timeConstant, timestepSize_) ==
  << (TimeConstantsPerRun * timeConstant) \div timestepSize_,
     QuotientRounding(resistance_, capacitance_) >>

\* step < numberOfTimesteps, step an int converted to double
StepLess(step_, n) == step_ < n[1] \/ (step_ = n[1] /\ 0 < n[2])

\* 1. / period, period in nanoseconds, in hertz
Frequency(period) == 1000000000 \div period

\* A member call: the object before it, the arguments, what it returned.
NoCall == [op |-> "", pre |-> << >>, args |-> << >>, ret |-> << >>]

\* The edge test taking every step after the first as an edge.
EdgeDetected_every(last, inverterOutput) == has_value(last)

\* The edge test without the first-step exemption.
EdgeDetected_first(last, inverterOutput) ==
  ~has_value(last) \/ value(last) # inverterOutput

\* Lines 357-360: an edge is a step whose output differs from the last one
\* seen; the first step only records its output.
EdgeDetected(last, inverterOutput) ==
  has_value(last) /\ value(last) # inverterOutput

\* step * timestepSize, lines 353 and 363
\* The sample time taken at the end of the step.
SampleTime_next(step_, timestepSize_) == (step_ + 1) * timestepSize_

SampleTime(step_, timestepSize_) == step_ * timestepSize_

Init ==
  /\ pc = "start"
  /\ \E a \in Argv :
       /\ resistance = a.resistance
       /\ capacitance = a.capacitance
       /\ logicLowVoltage = a.logicLowVoltage
       /\ logicHighVoltage = a.logicHighVoltage
       /\ logicLowTransitionVoltage = a.logicLowTransitionVoltage
       /\ logicHighTransitionVoltage = a.logicHighTransitionVoltage
  /\ inverter = NotConstructed
  /\ capacitor = NotConstructed
  /\ resistor = NotConstructed
  /\ stateMonitor = NotConstructed
  /\ timestepSize = 0
  /\ numberOfTimesteps = <<0, 0>>
  /\ lastInverterOutput = nullopt
  /\ step = 0
  /\ descriptionFile = "unopened"
  /\ out = "unopened"
  /\ frequency = nullopt
  /\ sampleCount = 0
  /\ lastSample = << >>
  /\ edgeCount = 0
  /\ lastEdge = << >>
  /\ call = NoCall
  /\ calls = << >>
  /\ twin = NotConstructed

\* Lines 304-342: the description file, the three components, the run
\* parameters, the CSV file, the monitor.
Setup ==
  /\ pc = "start"
  /\ \E descriptionOpens \in BOOLEAN, outOpens \in BOOLEAN,
        indeterminateHi \in BOOLEAN,
        indeterminateCharge \in IndeterminateCharge :
       LET timeConstant == capacitance * resistance
           dt == timeConstant \div TimestepsPerTimeConstant
       IN /\ inverter' = Inverter(logicLowVoltage, logicHighVoltage,
                                  logicLowTransitionVoltage,
                                  logicHighTransitionVoltage, 0,
                                  indeterminateHi)
          /\ capacitor' = Capacitor(capacitance, indeterminateCharge)
          /\ resistor' = Resistor(resistance)
          /\ timestepSize' = dt
          /\ numberOfTimesteps' =
               NumberOfTimesteps(resistance, capacitance, timeConstant, dt)
          /\ IF outOpens
             THEN /\ out' = "open"
                  /\ descriptionFile' =
                       IF descriptionOpens THEN "open" ELSE "failed"
                  /\ stateMonitor' = StateMonitor
                  /\ pc' = "loop"
             ELSE \* return EXIT_FAILURE: the destructors run
                  /\ out' = "failed"
                  /\ descriptionFile' =
                       IF descriptionOpens THEN "closed" ELSE "failed"
                  /\ stateMonitor' = stateMonitor
                  /\ pc' = "exit_failure"
  /\ UNCHANGED <<resistance, capacitance, logicLowVoltage, logicHighVoltage,
                 logicLowTransitionVoltage, logicHighTransitionVoltage,
                 lastInverterOutput, step, frequency, sampleCount, lastSample,
                 edgeCount, lastEdge, call, calls, twin>>

\* The objects and variables the loop works on.
ThisRun ==
  [inverter |-> inverter, capacitor |-> capacitor,
   stateMonitor |-> stateMonitor, lastInverterOutput |-> lastInverterOutput,
   step |-> step, sampleCount |-> sampleCount, lastSample |-> lastSample,
   edgeCount |-> edgeCount, lastEdge |-> lastEdge]

\* Line 351 fed with the voltage read at line 344, before the update.
FeedbackVoltage_stale(before, after) == voltage(before)

\* Line 351: the inverter's input is the capacitor's voltage after addCharge.
FeedbackVoltage(before, after) == voltage(after)

\* Lines 344-364: the body of the simulation loop, on run s.
LoopBody(s, resistor_, timestepSize_, logicHighVoltage_) ==
  LET capacitorVoltage == voltage(s.capacitor)
      inverterVoltage == getOutputVoltage(s.inverter)
      current_ == current(resistor_, inverterVoltage, capacitorVoltage)
      charge == FMul(current_, timestepSize_)
      capacitor_ == addCharge(s.capacitor, charge)
      inverter_ == setInputVoltage(s.inverter,
                                   FeedbackVoltage(s.capacitor, capacitor_))
      inverterOutput == getOutputVoltage(inverter_)
      time == SampleTime(s.step, timestepSize_)
      edge == EdgeDetected(s.lastInverterOutput, inverterOutput)
  IN [inverter |-> inverter_,
      capacitor |-> capacitor_,
      sampleCount |-> s.sampleCount + 1,
      lastSample |-> <<time, voltage(capacitor_), inverterOutput>>,
      lastInverterOutput |->
        IF ~has_value(s.lastInverterOutput) \/ edge
        THEN <<inverterOutput>>
        ELSE s.lastInverterOutput,
      stateMonitor |->
        IF edge
        THEN stateChange(s.stateMonitor, inverterOutput = logicHighVoltage_,
                         time)
        ELSE s.stateMonitor,
      edgeCount |-> IF edge THEN s.edgeCount + 1 ELSE s.edgeCount,
      lastEdge |-> IF edge THEN <<inverterOutput = logicHighVoltage_, time>>
                           ELSE s.lastEdge,
      step |-> s.step + 1]

\* Lines 343-365: one iteration of the simulation loop.
LoopStep ==
  /\ pc = "loop"
  /\ StepLess(step, numberOfTimesteps)
  /\ \E s \in {LoopBody(ThisRun, resistor, timestepSize, logicHighVoltage)} :
        /\ capacitor' = s.capacitor
        /\ inverter' = s.inverter
        /\ sampleCount' = s.sampleCount
        /\ lastSample' = s.lastSample
        /\ lastInverterOutput' = s.lastInverterOutput
        /\ stateMonitor' = s.stateMonitor
        /\ edgeCount' = s.edgeCount
        /\ lastEdge' = s.lastEdge
        /\ step' = s.step
  /\ UNCHANGED <<pc, resistance, capacitance, logicLowVoltage,
                 logicHighVoltage, logicLowTransitionVoltage,
                 logicHighTransitionVoltage, resistor, timestepSize,
                 numberOfTimesteps, descriptionFile, out, frequency, call,
                 calls, twin>>

\* Lines 366-373: the period is queried and the frequency reported.  An
\* exception leaving main() ends the program in std::terminate: nothing
\* after line 368 runs, and no destructor closes the files.
AfterLoop ==
  /\ pc = "loop"
  /\ ~StepLess(step, numberOfTimesteps)
  /\ LET period == getPeriod(stateMonitor)
     IN IF period.threw = ""
        THEN /\ frequency' = <<Frequency(value(period.result))>>
             /\ descriptionFile' =
                  IF descriptionFile = "open" THEN "closed" ELSE descriptionFile
             /\ out' = "closed"
             /\ pc' = "exit_success"
        ELSE /\ pc' = "terminated"
             /\ UNCHANGED <<frequency, descriptionFile, out>>
  /\ UNCHANGED <<resistance, capacitance, logicLowVoltage, logicHighVoltage,
                 logicLowTransitionVoltage, logicHighTransitionVoltage,
                 inverter, capacitor, resistor, stateMonitor, timestepSize,
                 numberOfTimesteps, lastInverterOutput, step, sampleCount,
                 lastSample, edgeCount, lastEdge, call, calls, twin>>

Next == Setup \/ LoopStep \/ AfterLoop

Spec == Init /\ [][Next]_vars

----------------------------------------------------------------------------
\* Two runs of main() on the same command line, side by side. Each run
\* constructs its own Inverter and Capacitor, so each draws its own
\* indeterminate values for the members the constructors leave unset.

MaxTwinSteps == 3

\* Lines 317-322, 341: the objects of one run, as constructed.
Constructed(indeterminateHi, indeterminateCharge) ==
  [inverter |-> Inverter(logicLowVoltage, logicHighVoltage,
                         logicLowTransitionVoltage,
                         logicHighTransitionVoltage, 0, indeterminateHi),
   capacitor |-> Capacitor(capacitance, indeterminateCharge),
   stateMonitor |-> StateMonitor, lastInverterOutput |-> nullopt,
   step |-> 0, sampleCount |-> 0, lastSample |-> << >>,
   edgeCount |-> 0, lastEdge |-> << >>]

\* Lines 240-341, twice: both runs reach the loop (both output files open).
SetupTwoRuns ==
  /\ pc = "start"
  /\ \E indeterminateHi \in BOOLEAN,
        indeterminateCharge \in IndeterminateCharge,
        twinHi \in BOOLEAN, twinCharge \in IndeterminateCharge :
       LET timeConstant == capacitance * resistance
           dt == timeConstant \div TimestepsPerTimeConstant
           s == Constructed(indeterminateHi, indeterminateCharge)
       IN /\ inverter' = s.inverter
          /\ capacitor' = s.capacitor
          /\ stateMonitor' = s.stateMonitor
          /\ twin' = Constructed(twinHi, twinCharge)
          /\ resistor' = Resistor(resistance)
          /\ timestepSize' = dt
          /\ numberOfTimesteps' =
               NumberOfTimesteps(resistance, capacitance, timeConstant, dt)
  /\ out' = "open"
  /\ descriptionFile' = "open"
  /\ pc' = "loop_two_runs"
  /\ UNCHANGED <<resistance, capacitance, logicLowVoltage, logicHighVoltage,
                 logicLowTransitionVoltage, logicHighTransitionVoltage,
                 lastInverterOutput, step, frequency, sampleCount, lastSample,
                 edgeCount, lastEdge, call, calls>>

\* Lines 343-365, in both runs: the first MaxTwinSteps iterations.
LoopStepTwoRuns ==
  /\ pc = "loop_two_runs"
  /\ step < MaxTwinSteps
  /\ StepLess(step, numberOfTimesteps)
  /\ \E s \in {LoopBody(ThisRun, resistor, timestepSize, logicHighVoltage)} :
        /\ capacitor' = s.capacitor
        /\ inverter' = s.inverter
        /\ sampleCount' = s.sampleCount
        /\ lastSample' = s.lastSample
        /\ lastInverterOutput' = s.lastInverterOutput
        /\ stateMonitor' = s.stateMonitor
        /\ edgeCount' = s.edgeCount
        /\ lastEdge' = s.lastEdge
        /\ step' = s.step
  /\ twin' = LoopBody(twin, resistor, timestepSize, logicHighVoltage)
  /\ UNCHANGED <<pc, resistance, capacitance, logicLowVoltage,
                 logicHighVoltage, logicLowTransitionVoltage,
                 logicHighTransitionVoltage, resistor, timestepSize,
                 numberOfTimesteps, descriptionFile, out, frequency, call,
                 calls>>

NextTwoRuns == SetupTwoRuns \/ LoopStepTwoRuns

SpecTwoRuns == Init /\ [][NextTwoRuns]_vars

----------------------------------------------------------------------------
(***************************************************************************)
(* The classes on their own: an Inverter, and a StateMonitor, under every  *)
(* sequence of calls of their public members.                              *)
(***************************************************************************)

\* Voltages given to an Inverter lie in -MaxVolt .. MaxVolt.
MaxVolt == 2
\* Times given to a StateMonitor lie in 0 .. MaxTime.
MaxTime == 3
\* A StateMonitor receives at most MaxCalls stateChange calls.
MaxCalls == 5

Volts == (-MaxVolt) .. MaxVolt

\* main() is not running in these specifications.
NoProgram ==
  /\ resistance = DefaultResistance
  /\ capacitance = DefaultCapacitance
  /\ logicLowVoltage = DefaultLogicLowVoltage
  /\ logicHighVoltage = DefaultLogicHighVoltage
  /\ logicLowTransitionVoltage = DefaultLogicLowTransitionVoltage
  /\ logicHighTransitionVoltage = DefaultLogicHighTransitionVoltage
  /\ capacitor = NotConstructed
  /\ resistor = NotConstructed
  /\ timestepSize = 0
  /\ numberOfTimesteps = <<0, 0>>
  /\ lastInverterOutput = nullopt
  /\ step = 0
  /\ descriptionFile = "unopened"
  /\ out = "unopened"
  /\ frequency = nullopt
  /\ sampleCount = 0
  /\ lastSample = << >>
  /\ edgeCount = 0
  /\ lastEdge = << >>
  /\ twin = NotConstructed

programVars ==
  <<pc, resistance, capacitance, logicLowVoltage, logicHighVoltage,
    logicLowTransitionVoltage, logicHighTransitionVoltage, capacitor,
    resistor, timestepSize, numberOfTimesteps, lastInverterOutput, step,
    descriptionFile, out, frequency, sampleCount, lastSample, edgeCount,
    lastEdge, twin>>

\* An Inverter as its constructor leaves it, lines 126-136.
InitInverter ==
  /\ pc = "Inverter"
  /\ NoProgram
  /\ stateMonitor = NotConstructed
  /\ calls = << >>
  /\ \E outputHi_ \in 0 .. 1, hiLowTransition_ \in Volts,
        lowHiTransition_ \in Volts, volts \in Volts,
        indeterminateHi \in BOOLEAN :
       /\ inverter = Inverter(0, outputHi_, hiLowTransition_,
                              lowHiTransition_, volts, indeterminateHi)
       /\ call = [op |-> "Inverter", pre |-> << >>,
                  args |-> <<0, outputHi_, hiLowTransition_,
                             lowHiTransition_, volts>>,
                  ret |-> << >>]

CallSetInputVoltage ==
  \E volts \in Volts :
    /\ inverter' = setInputVoltage(inverter, volts)
    /\ call' = [op |-> "setInputVoltage", pre |-> inverter,
                args |-> <<volts>>, ret |-> << >>]
    /\ UNCHANGED <<programVars, stateMonitor, calls>>

CallGetOutputVoltage ==
  /\ call' = [op |-> "getOutputVoltage", pre |-> inverter, args |-> << >>,
              ret |-> <<getOutputVoltage(inverter)>>]
  /\ UNCHANGED <<programVars, inverter, stateMonitor, calls>>

NextInverter == CallSetInputVoltage \/ CallGetOutputVoltage

SpecInverter == InitInverter /\ [][NextInverter]_vars

\* A StateMonitor as StateMonitor() leaves it, line 341.
InitMonitor ==
  /\ pc = "StateMonitor"
  /\ NoProgram
  /\ inverter = NotConstructed
  /\ stateMonitor = StateMonitor
  /\ call = [op |-> "StateMonitor", pre |-> << >>, args |-> << >>,
             ret |-> << >>]
  /\ calls = << >>

CallStateChange ==
  /\ Len(calls) < MaxCalls
  /\ \E stateHigh \in BOOLEAN, time \in 0 .. MaxTime :
       /\ stateMonitor' = stateChange(stateMonitor, stateHigh, time)
       /\ call' = [op |-> "stateChange", pre |-> stateMonitor,
                   args |-> <<stateHigh, time>>,
                   ret |-> <<stateChangeNotice(stateMonitor, stateHigh,
                                               time)>>]
       /\ calls' = Append(calls, <<stateHigh, time>>)
  /\ UNCHANGED <<programVars, inverter>>

CallGetPeriod ==
  /\ call' = [op |-> "getPeriod", pre |-> stateMonitor, args |-> << >>,
              ret |-> <<getPeriod(stateMonitor)>>]
  /\ UNCHANGED <<programVars, inverter, stateMonitor, calls>>

NextMonitor == CallStateChange \/ CallGetPeriod

SpecMonitor == InitMonitor /\ [][NextMonitor]_vars

\* A Capacitor has a capacitance in 1 .. MaxCapacitance.
MaxCapacitance == 2
\* Charges given to addCharge lie in -MaxCharge .. MaxCharge.
MaxCharge == 2
\* A Capacitor receives at most MaxAdditions addCharge calls.
MaxAdditions == 3

\* A Capacitor as its constructor leaves it, lines 42-47.
InitCapacitor ==
  /\ pc = "Capacitor"
  /\ resistance = DefaultResistance
  /\ capacitance = DefaultCapacitance
  /\ logicLowVoltage = DefaultLogicLowVoltage
  /\ logicHighVoltage = DefaultLogicHighVoltage
  /\ logicLowTransitionVoltage = DefaultLogicLowTransitionVoltage
  /\ logicHighTransitionVoltage = DefaultLogicHighTransitionVoltage
  /\ inverter = NotConstructed
  /\ resistor = NotConstructed
  /\ stateMonitor = NotConstructed
  /\ timestepSize = 0
  /\ numberOfTimesteps = <<0, 0>>
  /\ lastInverterOutput = nullopt
  /\ step = 0
  /\ descriptionFile = "unopened"
  /\ out = "unopened"
  /\ frequency = nullopt
  /\ sampleCount = 0
  /\ lastSample = << >>
  /\ edgeCount = 0
  /\ lastEdge = << >>
  /\ twin = NotConstructed
  /\ calls = << >>
  /\ \E capacitance_ \in 1 .. MaxCapacitance,
        indeterminateCharge \in IndeterminateCharge :
       /\ capacitor = Capacitor(capacitance_, indeterminateCharge)
       /\ call = [op |-> "Capacitor", pre |-> << >>,
                  args |-> <<capacitance_>>, ret |-> << >>]

capacitorHarnessUnchanged ==
  <<pc, resistance, capacitance, logicLowVoltage, logicHighVoltage,
    logicLowTransitionVoltage, logicHighTransitionVoltage, inverter,
    resistor, stateMonitor, timestepSize, numberOfTimesteps,
    lastInverterOutput, step, descriptionFile, out, frequency, sampleCount,
    lastSample, edgeCount, lastEdge, twin>>

CallAddCharge ==
  /\ Len(calls) < MaxAdditions
  /\ \E charge \in (-MaxCharge) .. MaxCharge :
       /\ capacitor' = addCharge(capacitor, charge)
       /\ call' = [op |-> "addCharge", pre |-> capacitor,
                   args |-> <<charge>>, ret |-> << >>]
       /\ calls' = Append(calls, charge)
  /\ UNCHANGED capacitorHarnessUnchanged

CallVoltage ==
  /\ call' = [op |-> "voltage", pre |-> capacitor, args |-> << >>,
              ret |-> <<voltage(capacitor)>>]
  /\ UNCHANGED <<capacitorHarnessUnchanged, capacitor, calls>>

NextCapacitor == CallAddCharge \/ CallVoltage

SpecCapacitor == InitCapacitor /\ [][NextCapacitor]_vars

----------------------------------------------------------------------------
(***************************************************************************)
(* Properties of the Inverter (SpecInverter)                               *)
(***************************************************************************)

\* C1: setInputVoltage(v) is exactly the hysteresis rule.  From Low the
\* inverter is High afterwards if and only if v <= hiLowTransition; from
\* High it is Low afterwards if and only if v >= lowHiTransition; nothing
\* but hi changes; and getOutputVoltage, the only other member, changes
\* nothing and returns outputHi when High, outputLow when Low.
C1_Hysteresis ==
  /\ call.op = "setInputVoltage" =>
       LET v == call.args[1]
           before == call.pre
       IN /\ ~before.hi => (inverter.hi <=> v <= before.hiLowTransition)
          /\ before.hi => (~inverter.hi <=> v >= before.lowHiTransition)
          /\ inverter = [before EXCEPT !.hi = inverter.hi]
  /\ call.op = "getOutputVoltage" =>
       /\ inverter = call.pre
       /\ call.ret = <<IF inverter.hi THEN inverter.outputHi
                                      ELSE inverter.outputLow>>

\* C1's case: a Low inverter with a proper band (hiLowTransition below
\* lowHiTransition) was fed exactly hiLowTransition and is now High.
C1_Witness ==
  /\ call.op = "setInputVoltage"
  /\ ~call.pre.hi
  /\ call.args[1] = call.pre.hiLowTransition
  /\ call.pre.hiLowTransition < call.pre.lowHiTransition
  /\ inverter.hi

\* C2: a constructed Inverter is High if and only if its initial input
\* voltage is at most hiLowTransition, as the rule applied once from Low
\* gives.
C2_ConstructedFromLow ==
  call.op = "Inverter" => (inverter.hi <=> call.args[5] <= call.args[3])

(***************************************************************************)
(* Properties of main() (Spec)                                             *)
(***************************************************************************)

\* C3: a newly constructed Capacitor holds no charge, so that step 0 of the
\* loop reads a capacitor voltage of 0.
C3_FreshCapacitorIsEmpty ==
  (pc = "loop" /\ step = 0) =>
     (capacitor.totalCharge = 0 /\ voltage(capacitor) = 0)

\* C4: once the loop has ended, a frequency is reported only if both
\* accumulators of the monitor are set, and a run that saw fewer than one
\* full low phase and one full high phase does not end in a crash.
C4_DegenerateRunIsReported ==
  /\ pc # "terminated"
  /\ has_value(frequency) =>
       (has_value(stateMonitor.lowInterval)
          /\ has_value(stateMonitor.highInterval))

\* The least whole number that is not below the double n.
Ceiling(n) == IF n[2] > 0 THEN n[1] + 1 ELSE n[1]

Finished == pc \in {"exit_success", "terminated"}

\* C9: in a step of the loop stateChange is called if and only if the step
\* is not step 0 and the inverter's output after it differs from the output
\* after the step before; it is called once, with isHigh = (the new output =
\* logicHighVoltage) and time = step * timestepSize.
C9_EdgeIffOutputChanged ==
  [][(pc = "loop" /\ step' = step + 1) =>
       LET newOutput == getOutputVoltage(inverter')
           changed == step > 0 /\ newOutput # getOutputVoltage(inverter)
       IN /\ changed => /\ edgeCount' = edgeCount + 1
                        /\ lastEdge' = <<newOutput = logicHighVoltage,
                                         step * timestepSize>>
                        /\ stateMonitor' =
                             stateChange(stateMonitor,
                                         newOutput = logicHighVoltage,
                                         step * timestepSize)
          /\ ~changed => UNCHANGED <<edgeCount, lastEdge, stateMonitor>>]_vars

\* C9's case: step 0 has run on an inverter that every construction leaves
\* High, its output is now Low, and no stateChange call was made.
C9_Witness ==
  /\ pc = "loop"
  /\ step = 1
  /\ edgeCount = 0
  /\ stateMonitor = StateMonitor
  /\ ~inverter.hi
  /\ inverter.outputHi # inverter.outputLow
  /\ \A indeterminateHi \in BOOLEAN :
       Inverter(logicLowVoltage, logicHighVoltage, logicLowTransitionVoltage,
                logicHighTransitionVoltage, 0, indeterminateHi).hi

\* C10 as stated: a run whose CSV file opened emits exactly N samples,
\* N = 10 * timeConstant / timestepSize, for the steps 0 .. N-1 in order,
\* and the sample times never decrease.
C10_ExactlyNSamples ==
  /\ Finished => numberOfTimesteps = <<sampleCount, 0>>
  /\ (pc = "loop" /\ step > 0) =>
        /\ sampleCount = step
        /\ lastSample[1] = (step - 1) * timestepSize

\* C10 as amended: a run whose CSV file opened emits one sample per step
\* for the steps 0 .. M-1 in order, M the least whole number not below the
\* double N = 10 * timeConstant / timestepSize the program computed (M = N
\* when N is whole); sample k carries the time k * timestepSize, and the
\* sample times never decrease.
C10_SamplesPerStep ==
  /\ [](/\ Finished => sampleCount = Ceiling(numberOfTimesteps)
        /\ pc = "loop" => /\ sampleCount = step
                          /\ step <= Ceiling(numberOfTimesteps)
        /\ sampleCount > 0 =>
             lastSample[1] = (sampleCount - 1) * timestepSize)
  /\ [][(sampleCount > 0 /\ sampleCount' # sampleCount) =>
          /\ sampleCount' = sampleCount + 1
          /\ lastSample'[1] >= lastSample[1]]_vars

\* C10's case: a run has ended whose N is not a whole number, one sample
\* beyond the whole part of N having been emitted.
C10_Witness ==
  /\ Finished
  /\ numberOfTimesteps[2] > 0
  /\ sampleCount = numberOfTimesteps[1] + 1
  /\ lastSample[1] = numberOfTimesteps[1] * timestepSize

(***************************************************************************)
(* Properties of the StateMonitor (SpecMonitor)                            *)
(***************************************************************************)

BothSet(m) == has_value(m.lowInterval) /\ has_value(m.highInterval)

\* C5: only the first durations are kept.  Once lowInterval is set no call
\* changes it, likewise highInterval, and once both are set no call changes
\* what getPeriod() returns.
C5_FirstDurationsKept ==
  [][/\ has_value(stateMonitor.lowInterval) =>
          stateMonitor'.lowInterval = stateMonitor.lowInterval
     /\ has_value(stateMonitor.highInterval) =>
          stateMonitor'.highInterval = stateMonitor.highInterval
     /\ BothSet(stateMonitor) =>
          getPeriod(stateMonitor') = getPeriod(stateMonitor)]_vars

\* C5's case: with both durations set, a stateChange call has measured an
\* interval other than the one kept for its level, and the kept one stands.
C5_Witness ==
  /\ call.op = "stateChange"
  /\ BothSet(call.pre)
  /\ LET interval == call.args[2] - value(call.pre.previousTime)
         kept == IF call.args[1] THEN call.pre.lowInterval
                                 ELSE call.pre.highInterval
     IN /\ <<interval>> # kept
        /\ kept = (IF call.args[1] THEN stateMonitor.lowInterval
                                   ELSE stateMonitor.highInterval)

\* C6: the first stateChange call on a fresh StateMonitor sets neither
\* duration; it records its time as previousTime and nothing else.
C6_FirstCallSetsNoDuration ==
  Len(calls) = 1 =>
    stateMonitor = [highInterval |-> nullopt, lowInterval |-> nullopt,
                    previousTime |-> <<calls[1][2]>>]

\* C6's case: the first call has been made, at a time other than 0.
C6_Witness ==
  /\ Len(calls) = 1
  /\ call.op = "stateChange"
  /\ calls[1][2] > 0
  /\ stateMonitor.previousTime = <<calls[1][2]>>

Alternating(n) ==
  /\ Len(calls) = n
  /\ \A i \in 1 .. (n - 1) : calls[i][1] # calls[i + 1][1]

\* C7 as stated: after exactly two stateChange calls of opposite levels at
\* t0 then t1, getPeriod() yields t1 - t0; after a third call of the
\* opposite level at t2 it yields (t1 - t0) + (t2 - t1).
C7_PeriodAfterTwoCalls ==
  /\ Alternating(2) =>
       getPeriod(stateMonitor).result = <<calls[2][2] - calls[1][2]>>
  /\ Alternating(3) =>
       getPeriod(stateMonitor).result =
         <<(calls[2][2] - calls[1][2]) + (calls[3][2] - calls[2][2])>>

\* C7 as amended: after exactly two stateChange calls of opposite levels at
\* t0 then t1, t1 - t0 is held as the low duration if the second call is
\* High and as the high duration if it is Low, the other duration is unset
\* and getPeriod() throws; after a third call of the opposite level at t2
\* both are set and getPeriod() returns (t1 - t0) + (t2 - t1).
C7_DurationsAfterTwoAndThreeCalls ==
  /\ Alternating(2) =>
       LET first == <<calls[2][2] - calls[1][2]>>
       IN /\ calls[2][1] => /\ stateMonitor.lowInterval = first
                            /\ stateMonitor.highInterval = nullopt
          /\ ~calls[2][1] => /\ stateMonitor.highInterval = first
                             /\ stateMonitor.lowInterval = nullopt
          /\ getPeriod(stateMonitor) =
               [threw |-> "std::bad_optional_access", result |-> << >>]
  /\ Alternating(3) =>
       getPeriod(stateMonitor) =
         [threw |-> "",
          result |-> <<(calls[2][2] - calls[1][2])
                       + (calls[3][2] - calls[2][2])>>]

\* C7's case: three calls of alternating levels at three different times
\* have been made and getPeriod() has returned a number.
C7_Witness ==
  /\ Alternating(3)
  /\ calls[1][2] < calls[2][2]
  /\ calls[2][2] < calls[3][2]
  /\ call.op = "getPeriod"
  /\ call.ret[1].threw = ""

\* C8: getPeriod() returns lowInterval + highInterval when both are set;
\* when one is unset it ends in an exception and returns no number; either
\* way it leaves the monitor as it was.
C8_GetPeriod ==
  call.op = "getPeriod" =>
    LET m == call.pre
        r == call.ret[1]
    IN /\ BothSet(m) =>
            /\ r.threw = ""
            /\ r.result = <<value(m.lowInterval) + value(m.highInterval)>>
       /\ ~BothSet(m) => (r.threw # "" /\ r.result = << >>)
       /\ stateMonitor = m

\* C8's case: getPeriod() was called with exactly one duration set, and
\* threw.
C8_Witness ==
  /\ call.op = "getPeriod"
  /\ has_value(call.pre.lowInterval) # has_value(call.pre.highInterval)
  /\ call.ret[1].threw = "std::bad_optional_access"

----------------------------------------------------------------------------
(***************************************************************************)
(* Properties of whole runs of main() (Spec)                               *)
(***************************************************************************)

DefaultParameters ==
  /\ resistance = DefaultResistance
  /\ capacitance = DefaultCapacitance
  /\ logicLowVoltage = DefaultLogicLowVoltage
  /\ logicHighVoltage = DefaultLogicHighVoltage
  /\ logicLowTransitionVoltage = DefaultLogicLowTransitionVoltage
  /\ logicHighTransitionVoltage = DefaultLogicHighTransitionVoltage

\* C11: with the default parameters a run that reaches the end of its loop
\* has detected at least one transition and has seen a full low phase and
\* a full high phase, so that its period is defined.
C11_DefaultRunHasPeriod ==
  (DefaultParameters /\ Finished) =>
     /\ edgeCount >= 1
     /\ BothSet(stateMonitor)
     /\ pc = "exit_success"

\* C12: when logicHighVoltage equals logicLowVoltage no edge event is ever
\* forwarded to the monitor, and the run ends with the period reported as
\* undefined: no frequency is reported and the program does not crash.
C12_EqualLevelsReported ==
  logicHighVoltage = logicLowVoltage =>
     /\ edgeCount = 0
     /\ frequency = nullopt
     /\ pc # "terminated"

\* C13: on every exit path no file is left open: after normal completion,
\* after the CSV file failed to open (where no step has run and the
\* description file, if it was opened, is closed), and after the period
\* query failed.
C13_FilesClosedOnExit ==
  /\ pc \in {"exit_success", "exit_failure", "terminated"} =>
       (descriptionFile # "open" /\ out # "open")
  /\ pc = "exit_failure" => (sampleCount = 0 /\ step = 0)


\* C14: two runs on identical inputs produce identical sample streams and
\* identical edge events: after every step the twin run's sample, edge count
\* and last edge equal this run's.
C14_RunsAgree ==
  pc = "loop_two_runs" =>
     /\ twin.lastSample = lastSample
     /\ twin.edgeCount = edgeCount
     /\ twin.lastEdge = lastEdge

\* C16: each loop step reads the capacitor voltage and the inverter output,
\* adds (output - voltage) / R * timestep to the capacitor, feeds the updated
\* voltage to the inverter, and emits the sample (step * timestep, updated
\* capacitor voltage, updated inverter output).
C16_StepOrder ==
  [][(pc = "loop" /\ step' = step + 1) =>
       LET v == voltage(capacitor)
           o == getOutputVoltage(inverter)
           q == FMul(FDiv(FSub(o, v), resistor.resistance), timestepSize)
       IN /\ capacitor'.totalCharge = FAdd(capacitor.totalCharge, q)
          /\ inverter' = setInputVoltage(inverter, voltage(capacitor'))
          /\ lastSample' = <<step * timestepSize, voltage(capacitor'),
                             getOutputVoltage(inverter')>>]_vars

\* A step in which the voltage just updated crossed the upper threshold: the
\* inverter went low in that same step and the sample shows the low output.
C16_Witness ==
  /\ pc = "loop"
  /\ edgeCount >= 1
  /\ lastEdge[2] = lastSample[1]
  /\ lastSample[1] = (step - 1) * timestepSize
  /\ ~inverter.hi
  /\ FGreaterEq(lastSample[2], inverter.lowHiTransition)
  /\ lastSample[3] = inverter.outputLow

\* The state a second setInputVoltage call with the last call's argument
\* would leave is the state the last call left.
RepeatChangesNothing ==
  setInputVoltage(inverter, call.args[1]) = inverter

\* C20: when hiLowTransition < lowHiTransition, setInputVoltage is
\* idempotent: after setInputVoltage(v), from any state, a second
\* setInputVoltage(v) leaves the state as it is.
C20_Idempotent ==
  (/\ call.op = "setInputVoltage"
   /\ inverter.hiLowTransition < inverter.lowHiTransition) =>
     RepeatChangesNothing

\* C20 as stated: idempotence fails only when the thresholds are in the
\* inverted order (hiLowTransition > lowHiTransition).
C20_FailsOnlyWhenInverted ==
  (/\ call.op = "setInputVoltage"
   /\ ~(inverter.hiLowTransition > inverter.lowHiTransition)) =>
     RepeatChangesNothing

\* A call that flipped an inverter with a proper dead band.
C20_Witness ==
  /\ call.op = "setInputVoltage"
  /\ inverter.hiLowTransition < inverter.lowHiTransition
  /\ call.pre.hi # inverter.hi

\* C17: every stateChange call sets previousTime to its own time, also once
\* both intervals are recorded; so from the second call on, the interval
\* the call reports is the time since the call immediately before it.
C17_PreviousTimeIsLastCall ==
  LET n == Len(calls)
  IN /\ n >= 1 => stateMonitor.previousTime = <<calls[n][2]>>
     /\ (call.op = "stateChange" /\ n >= 2) =>
          call.ret[1].interval = <<calls[n][2] - calls[n - 1][2]>>
     /\ (call.op = "stateChange" /\ n = 1) => call.ret[1].interval = nullopt

\* Calls 2 and 3 recorded both intervals, call 4 came later still and call 5,
\* later again, reported the interval since call 4.
C17_Witness ==
  /\ call.op = "stateChange"
  /\ Len(calls) = 5
  /\ calls[2][1] # calls[3][1]
  /\ BothSet(call.pre)
  /\ calls[4][2] > calls[3][2]
  /\ calls[5][2] > calls[4][2]
  /\ call.ret[1].interval = <<calls[5][2] - calls[4][2]>>

\* C18: when logicHighVoltage differs from logicLowVoltage, the edge events
\* forwarded to the monitor alternate in level and their times strictly
\* increase; both intervals are recorded exactly when at least three edge
\* events have occurred, and every recorded interval is positive.
C18_EdgesAlternate ==
  /\ [][(logicHighVoltage # logicLowVoltage /\ edgeCount >= 1
            /\ edgeCount' # edgeCount) =>
          /\ edgeCount' = edgeCount + 1
          /\ lastEdge'[1] # lastEdge[1]
          /\ lastEdge'[2] > lastEdge[2]]_vars
  /\ []((logicHighVoltage # logicLowVoltage
          /\ stateMonitor # NotConstructed) =>
          /\ BothSet(stateMonitor) <=> edgeCount >= 3
          /\ has_value(stateMonitor.lowInterval) =>
               value(stateMonitor.lowInterval) > 0
          /\ has_value(stateMonitor.highInterval) =>
               value(stateMonitor.highInterval) > 0
          /\ has_value(stateMonitor.previousTime) <=> edgeCount >= 1)

\* The third edge event of a run has just been forwarded: it recorded the
\* second interval.
C18_Witness ==
  /\ pc = "loop"
  /\ logicHighVoltage # logicLowVoltage
  /\ edgeCount = 3
  /\ lastEdge[2] = lastSample[1]
  /\ BothSet(stateMonitor)
  /\ stateMonitor.previousTime = <<lastEdge[2]>>

\* x lies between a and b (either order, ends included); no NaN does.
Between(a, x, b) ==
  \/ FLessEq(a, x) /\ FLessEq(x, b)
  \/ FLessEq(b, x) /\ FLessEq(x, a)

Min3(a, b, c) ==
  IF a <= b /\ a <= c THEN a ELSE IF b <= c THEN b ELSE c

Max3(a, b, c) ==
  IF a >= b /\ a >= c THEN a ELSE IF b >= c THEN b ELSE c

\* v lies in [min(0, logicLow, logicHigh), max(0, logicLow, logicHigh)].
InLogicRange(v) ==
  Between(Min3(0, logicLowVoltage, logicHighVoltage), v,
          Max3(0, logicLowVoltage, logicHighVoltage))

\* C19: the capacitor voltage after every step lies between its value
\* before the step and the inverter output used in that step; so a voltage
\* within [min(0, logicLow, logicHigh), max(0, logicLow, logicHigh)], as the
\* 0 V of an uncharged capacitor is, stays within it.
C19_VoltageBetween ==
  [][(pc = "loop" /\ step' = step + 1) =>
       /\ Between(voltage(capacitor), voltage(capacitor'),
                  getOutputVoltage(inverter))
       /\ InLogicRange(voltage(capacitor)) =>
            InLogicRange(voltage(capacitor'))]_vars

RECURSIVE SumOf(_)
SumOf(charges) ==
  IF charges = << >> THEN 0
  ELSE charges[1] + SumOf(Tail(charges))

\* C15: voltage() after addCharge(q1) .. addCharge(qn) on a fresh capacitor
\* returns (q1 + ... + qn) / C, whatever the order of the additions, and
\* voltage() leaves the capacitor as it was.
C15_VoltageIsSumOverC ==
  call.op = "voltage" =>
     /\ call.ret[1] = FDiv(SumOf(calls), capacitor.capacitance)
     /\ capacitor = call.pre

============================================================================
